---- MODULE Spec2Model ----
(***************************************************************************)
(* Model of the record write path of the dns client                        *)
(* (src/pkg/cloudlets/v3/cloudlets.go, lines 44-322): the process-wide     *)
(* mutex zoneRecordWriteLock and the three mutating operations             *)
(* CreateRecord, UpdateRecord and DeleteRecord, run by concurrent callers. *)
(*                                                                         *)
(* Each operation is split at its only blocking point, the call of         *)
(* zoneRecordWriteLock.Lock(): entering the function and evaluating        *)
(* localLock is one step, acquiring the mutex is one step, and the rest of *)
(* the body up to the return (with its deferred Unlock) is one step.       *)
(*                                                                         *)
(* The test that follows the lock statement,                               *)
(*     if err := record.Validate; err != nil { ...; return nil }           *)
(* binds the method value record.Validate (a func() error) and compares    *)
(* that function with nil.  A method value is never nil, so the branch is  *)
(* taken by every call: the function logs and returns nil.  The statements *)
(* after the branch (request body, request construction, p.Exec, status    *)
(* check) are therefore never executed, and the model has no step for      *)
(* them.  execCalls counts the invocations of p.Exec by a call.            *)
(*                                                                         *)
(* Beside the writes (Spec) the module holds: the writes for two zones on  *)
(* two clients (SpecZones), the writes under the scheduler's fairness      *)
(* (SpecLive), a read operation running beside the writes (SpecReads,      *)
(* after GetRuleFormats of src/unnamed/part_000), and the functions        *)
(* RecordBody.Validate, RecordToMap and localLock applied on their own to  *)
(* every argument within the bounds (SpecPure).                            *)
(***************************************************************************)
EXTENDS Integers, Sequences, FiniteSets, TLC

\* Number of goroutines that call the mutating operations concurrently.
NumCallers == 2

Callers == 1..NumCallers

\* Number of goroutines that call a read operation concurrently.
NumReaders == 2

Readers == 1..NumReaders

Ops == {"Create", "Update", "Delete"}

\* net/http status codes named by the three operations.
StatusOK == 200
StatusCreated == 201
StatusNoContent == 204

\* RecordBody values the callers submit: the record of the end-to-end
\* scenario, the zero value RecordBody{} (empty name, empty type, zero TTL,
\* no target) and a record that lacks the TTL alone.
ValidRecord ==
  [Name |-> "www.example.com", RecordType |-> "A", TTL |-> 300,
   Active |-> FALSE, Target |-> <<"192.0.2.1">>]

ZeroRecord ==
  [Name |-> "", RecordType |-> "", TTL |-> 0, Active |-> FALSE,
   Target |-> <<>>]

CallRecords == { ValidRecord, ZeroRecord, [ValidRecord EXCEPT !.TTL = 0] }

\* The zones the calls name and the dns client values they are made on.
Zones == {"example.com", "example.org"}
Clients == {"p1", "p2"}

\* The variadic recLock arguments the callers pass: none, true or false.
LockArgs == { <<>>, <<TRUE>>, <<FALSE>> }

\* What the session collaborator can answer to an Exec call: a transport
\* error, or a response with one of these status codes.
SessionReplies ==
  {[err |-> TRUE, StatusCode |-> 0]} \cup
  {[err |-> FALSE, StatusCode |-> s] :
     s \in {StatusOK, StatusCreated, StatusNoContent, 404}}

NoCall == [op |-> "none"]

\* Bounds of the arguments handed to the functions that are checked on
\* their own: the largest absolute TTL, the longest target list and the
\* longest variadic lock argument list.
MaxTTL == 1
MaxTargets == 1
MaxLockArgs == 2

\* Every RecordBody within the bounds.
TargetLists == UNION { [1..n -> {"192.0.2.1"}] : n \in 0..MaxTargets }

AllRecords ==
  [Name : {"", "www.example.com"}, RecordType : {"", "A"},
   TTL : (0 - MaxTTL)..MaxTTL, Active : BOOLEAN, Target : TargetLists]

\* Every lockArg slice within the bound.
AllLockArgs == UNION { [1..n -> BOOLEAN] : n \in 0..MaxLockArgs }

VARIABLES
  zoneRecordWriteLock,  \* TRUE iff the sync.Mutex is locked
  pc,                   \* per caller: "idle", "Lock", "Validate" or "done"
  call,                 \* per caller: the arguments of its current call
  deferred,             \* per caller: defer zoneRecordWriteLock.Unlock() registered
  ret,                  \* per caller: the error value the call returned
  ctxDone,              \* per caller: the call's context has been cancelled
  execCalls,            \* per caller: invocations of p.Exec by the current call
  readPc,               \* per reader: "idle", "Exec" (request in flight) or "done"
  readRet,              \* per reader: the error value the read returned
  fn,                   \* the function called on its own, "none" if there is none
  input,                \* its argument
  output                \* <<>> before it returns, then <<its result>>

writeVars == <<zoneRecordWriteLock, pc, call, deferred, ret, ctxDone, execCalls>>
readVars == <<readPc, readRet>>

pureVars == <<fn, input, output>>

vars == <<writeVars, readVars, pureVars>>

\* Validate without the rule on the TTL.
ValidateNoTTL(rec) ==
  {f \in {"Name", "RecordType", "Target"} :
     \/ f = "Name" /\ rec.Name = ""
     \/ f = "RecordType" /\ rec.RecordType = ""
     \/ f = "Target" /\ Len(rec.Target) = 0}

\* RecordBody.Validate: the names of the fields that fail validation.Required
\* (a string is required to be non-empty, an int to be non-zero, a slice to
\* be non-empty); the empty set stands for a nil error.
Validate(rec) ==
  {f \in {"Name", "RecordType", "TTL", "Target"} :
     \/ f = "Name" /\ rec.Name = ""
     \/ f = "RecordType" /\ rec.RecordType = ""
     \/ f = "TTL" /\ rec.TTL = 0
     \/ f = "Target" /\ Len(rec.Target) = 0}

\* The condition of "if err := record.Validate; err != nil": err is the
\* method value, which is not nil whatever the record holds.
ValidateErrNotNil(rec) == TRUE

\* localLock that returns its last entry.
localLockLast(lockArg) ==
  IF Len(lockArg) > 0 THEN lockArg[Len(lockArg)] ELSE TRUE

\* localLock that always asks for the lock.
localLockAlways(lockArg) == TRUE

\* localLock that never asks for the lock.
localLockNever(lockArg) == FALSE

\* localLock: the first entry of lockArg, TRUE when there is none.
localLock(lockArg) == IF Len(lockArg) > 0 THEN lockArg[1] ELSE TRUE

\* The status code each operation compares resp.StatusCode with.
ExpectedStatus(op) ==
  CASE op = "Create" -> StatusCreated
    [] op = "Update" -> StatusOK
    [] op = "Delete" -> StatusNoContent

\* The statements that follow the validation branch build the request of
\* the call: the method of the operation, the path formatted from the
\* zone, the record's name and its type, and the body.
Method(op) ==
  CASE op = "Create" -> "POST"
    [] op = "Update" -> "PUT"
    [] op = "Delete" -> "DELETE"

Path(zone, rec) ==
  "/config-dns/v2/zones/" \o zone \o "/names/" \o rec.Name
    \o "/types/" \o rec.RecordType

\* convertStructToReqBody: the record serialized under its json tags,
\* each of which omits a field that holds its zero value.
convertStructToReqBody(rec) ==
  {kv \in {<<"name", rec.Name>>, <<"type", rec.RecordType>>,
            <<"ttl", rec.TTL>>, <<"active", rec.Active>>,
            <<"rdata", rec.Target>>} :
     \/ kv[1] = "name" /\ rec.Name # ""
     \/ kv[1] = "type" /\ rec.RecordType # ""
     \/ kv[1] = "ttl" /\ rec.TTL # 0
     \/ kv[1] = "active" /\ rec.Active
     \/ kv[1] = "rdata" /\ Len(rec.Target) > 0}

BuildRequest(op, zone, rec) ==
  [method |-> Method(op),
   path |-> Path(zone, rec),
   body |-> IF op = "Delete" THEN {} ELSE convertStructToReqBody(rec)]

\* No request.
NoRequest == [method |-> "none"]

InitWrite ==
  /\ zoneRecordWriteLock = FALSE
  /\ pc = [c \in Callers |-> "idle"]
  /\ call = [c \in Callers |-> NoCall]
  /\ deferred = [c \in Callers |-> FALSE]
  /\ ret = [c \in Callers |-> "none"]
  /\ ctxDone = [c \in Callers |-> FALSE]
  /\ execCalls = [c \in Callers |-> 0]

InitRead ==
  /\ readPc = [r \in Readers |-> "idle"]
  /\ readRet = [r \in Readers |-> "none"]

InitNoPure ==
  /\ fn = "none"
  /\ input = <<>>
  /\ output = <<>>

Init == InitWrite /\ InitRead /\ InitNoPure

\* A caller enters CreateRecord, UpdateRecord or DeleteRecord on the client
\* p with a record and a zone, and evaluates localLock(recLock): it goes on
\* to Lock() or skips the lock statement.
Enter(c, p, zone, op, rec, lockArg) ==
  /\ pc[c] = "idle"
  /\ call' = [call EXCEPT ![c] =
       [op |-> op, client |-> p, zone |-> zone, record |-> rec,
        recLock |-> lockArg]]
  /\ pc' = [pc EXCEPT ![c] = IF localLock(lockArg) THEN "Lock" ELSE "Validate"]
  /\ UNCHANGED <<zoneRecordWriteLock, deferred, ret, ctxDone, execCalls>>
  /\ UNCHANGED <<readVars, pureVars>>

\* A call on the client p1 for the zone example.com.
Call(c, op, rec, lockArg) == Enter(c, "p1", "example.com", op, rec, lockArg)

\* Lock() that takes the mutex without waiting for it to be free.
LockNoWait(c) ==
  /\ pc[c] = "Lock"
  /\ zoneRecordWriteLock' = TRUE
  /\ deferred' = [deferred EXCEPT ![c] = TRUE]
  /\ pc' = [pc EXCEPT ![c] = "Validate"]
  /\ UNCHANGED <<call, ret, ctxDone, execCalls>>
  /\ UNCHANGED <<readVars, pureVars>>

\* Lock() on a mutex kept per zone: it waits only for a holder whose call
\* names the same zone.
LockPerZone(c) ==
  /\ pc[c] = "Lock"
  /\ \A d \in Callers : deferred[d] => call[d].zone # call[c].zone
  /\ zoneRecordWriteLock' = TRUE
  /\ deferred' = [deferred EXCEPT ![c] = TRUE]
  /\ pc' = [pc EXCEPT ![c] = "Validate"]
  /\ UNCHANGED <<call, ret, ctxDone, execCalls>>
  /\ UNCHANGED <<readVars, pureVars>>

\* zoneRecordWriteLock.Lock() blocks until the mutex is free and takes it;
\* defer zoneRecordWriteLock.Unlock() follows.
Lock(c) ==
  /\ pc[c] = "Lock"
  /\ ~zoneRecordWriteLock
  /\ zoneRecordWriteLock' = TRUE
  /\ deferred' = [deferred EXCEPT ![c] = TRUE]
  /\ pc' = [pc EXCEPT ![c] = "Validate"]
  /\ UNCHANGED <<call, ret, ctxDone, execCalls>>
  /\ UNCHANGED <<readVars, pureVars>>

\* A return that runs the deferred Unlock only if the context is live.
RunDeferredUnlessCancelled(c) ==
  IF deferred[c] /\ ~ctxDone[c] THEN FALSE ELSE zoneRecordWriteLock

\* A return that runs no deferred Unlock.
RunDeferredNoUnlock(c) == zoneRecordWriteLock

\* The deferred calls of caller c run when its function returns: the state
\* of the mutex after them.
RunDeferred(c) == IF deferred[c] THEN FALSE ELSE zoneRecordWriteLock

\* The body after the lock statement: the logger, the test of the method
\* value record.Validate, the Errorf and "return nil", then the deferred
\* Unlock.
ValidateCheck(c) ==
  /\ pc[c] = "Validate"
  /\ ValidateErrNotNil(call[c].record)
  /\ ret' = [ret EXCEPT ![c] = "nil"]
  /\ zoneRecordWriteLock' = RunDeferred(c)
  /\ deferred' = [deferred EXCEPT ![c] = FALSE]
  /\ pc' = [pc EXCEPT ![c] = "done"]
  /\ UNCHANGED <<call, ctxDone, execCalls>>
  /\ UNCHANGED <<readVars, pureVars>>

\* The caller cancels the context of its call while the body of the call
\* runs.  sync.Mutex.Lock does not look at the context: a cancellation that
\* arrives while the call waits in Lock() shows only once the mutex is
\* taken, which is the state this step reaches too.
Cancel(c) ==
  /\ pc[c] = "Validate"
  /\ ~ctxDone[c]
  /\ ctxDone' = [ctxDone EXCEPT ![c] = TRUE]
  /\ UNCHANGED <<zoneRecordWriteLock, pc, call, deferred, ret, execCalls>>
  /\ UNCHANGED <<readVars, pureVars>>

\* The caller has taken the result and is ready to issue its next call.
Finish(c) ==
  /\ pc[c] = "done"
  /\ pc' = [pc EXCEPT ![c] = "idle"]
  /\ call' = [call EXCEPT ![c] = NoCall]
  /\ ret' = [ret EXCEPT ![c] = "none"]
  /\ ctxDone' = [ctxDone EXCEPT ![c] = FALSE]
  /\ execCalls' = [execCalls EXCEPT ![c] = 0]
  /\ UNCHANGED <<zoneRecordWriteLock, deferred>>
  /\ UNCHANGED <<readVars, pureVars>>

Next ==
  \E c \in Callers :
    \/ \E op \in Ops, rec \in CallRecords, lockArg \in LockArgs :
         Call(c, op, rec, lockArg)
    \/ Lock(c)
    \/ ValidateCheck(c)
    \/ Cancel(c)
    \/ Finish(c)

Spec == Init /\ [][Next]_vars

\* Calls on the scenario record and on the zero record, under the
\* scheduling the runtime gives: a goroutine that can run its body does run
\* it (weak fairness of ValidateCheck), and a goroutine waiting in Lock() is
\* granted the mutex if it is free again and again (strong fairness of
\* Lock: sync.Mutex hands the mutex to a waiter that has starved).  Callers
\* are not obliged to issue calls.
NextLive ==
  \E c \in Callers :
    \/ \E op \in Ops, rec \in {ValidRecord, ZeroRecord}, lockArg \in LockArgs :
         Call(c, op, rec, lockArg)
    \/ Lock(c)
    \/ ValidateCheck(c)
    \/ Finish(c)

SpecLive ==
  /\ Init
  /\ [][NextLive]_vars
  /\ \A c \in Callers : SF_vars(Lock(c)) /\ WF_vars(ValidateCheck(c))

\* Calls on the scenario record for either zone on either client, with no
\* lock argument or with false.
NextZones ==
  \E c \in Callers :
    \/ \E p \in Clients, zone \in Zones, op \in Ops, lockArg \in {<<>>, <<FALSE>>} :
         Enter(c, p, zone, op, ValidRecord, lockArg)
    \/ Lock(c)
    \/ ValidateCheck(c)
    \/ Finish(c)

SpecZones == Init /\ [][NextZones]_vars

----------------------------------------------------------------------------
\* A read operation, after GetRuleFormats (src/unnamed/part_000): it logs,
\* builds a GET request from a constant method and path, and calls p.Exec,
\* which blocks until the session answers.  No statement of it names
\* zoneRecordWriteLock.

\* A read that takes the write lock before its request.
GetRuleFormatsLocked(r) ==
  /\ readPc[r] = "idle"
  /\ ~zoneRecordWriteLock
  /\ zoneRecordWriteLock' = TRUE
  /\ readPc' = [readPc EXCEPT ![r] = "Exec"]
  /\ UNCHANGED <<pc, call, deferred, ret, ctxDone, execCalls, readRet, pureVars>>

\* Entry of the read up to the call of p.Exec: the request is in flight.
GetRuleFormats(r) ==
  /\ readPc[r] = "idle"
  /\ readPc' = [readPc EXCEPT ![r] = "Exec"]
  /\ UNCHANGED <<writeVars, readRet, pureVars>>

\* What the read returns for an answer of the session: the wrapped error
\* of Exec, an API error for a status other than 200, or the response.
ReadResult(reply) ==
  IF reply.err THEN "RequestFailed"
  ELSE IF reply.StatusCode # StatusOK THEN "APIError"
  ELSE "nil"

\* p.Exec returns with the session's answer and the read returns.
ExecReturns(r, reply) ==
  /\ readPc[r] = "Exec"
  /\ readRet' = [readRet EXCEPT ![r] = ReadResult(reply)]
  /\ readPc' = [readPc EXCEPT ![r] = "done"]
  /\ UNCHANGED <<writeVars, pureVars>>

\* The reader has taken the result and is ready to issue its next read.
ReadFinish(r) ==
  /\ readPc[r] = "done"
  /\ readPc' = [readPc EXCEPT ![r] = "idle"]
  /\ readRet' = [readRet EXCEPT ![r] = "none"]
  /\ UNCHANGED <<writeVars, pureVars>>

\* Reads running beside serialized writes of the scenario record.
NextReads ==
  \/ \E c \in Callers :
       \/ \E op \in Ops : Call(c, op, ValidRecord, <<>>)
       \/ Lock(c)
       \/ ValidateCheck(c)
       \/ Finish(c)
  \/ \E r \in Readers :
       \/ GetRuleFormats(r)
       \/ \E reply \in SessionReplies : ExecReturns(r, reply)
       \/ ReadFinish(r)

SpecReads == Init /\ [][NextReads]_vars

----------------------------------------------------------------------------
\* The functions called on their own: RecordBody.Validate, localLock and
\* RecordToMap, each applied to one argument drawn from the bounded sets.

\* The nil map, and the map RecordToMap builds from a record.
NilMap == [nil |-> TRUE]

MapOf(rec) ==
  [name |-> rec.Name, ttl |-> rec.TTL, recordtype |-> rec.RecordType,
   active |-> rec.Active, target |-> rec.Target]

\* RecordToMap: the test "if err := record.Validate; err != nil" is the
\* test of the method value again; its branch returns nil.
RecordToMap(rec) == IF ValidateErrNotNil(rec) THEN NilMap ELSE MapOf(rec)

InitPure ==
  /\ InitWrite
  /\ InitRead
  /\ \/ fn = "Validate" /\ input \in AllRecords
     \/ fn = "RecordToMap" /\ input \in AllRecords
     \/ fn = "localLock" /\ input \in AllLockArgs
  /\ output = <<>>

CallValidate ==
  /\ fn = "Validate"
  /\ output = <<>>
  /\ output' = <<Validate(input)>>
  /\ UNCHANGED <<writeVars, readVars, fn, input>>

CallRecordToMap ==
  /\ fn = "RecordToMap"
  /\ output = <<>>
  /\ output' = <<RecordToMap(input)>>
  /\ UNCHANGED <<writeVars, readVars, fn, input>>

CallLocalLock ==
  /\ fn = "localLock"
  /\ output = <<>>
  /\ output' = <<localLock(input)>>
  /\ UNCHANGED <<writeVars, readVars, fn, input>>

NextPure == CallValidate \/ CallRecordToMap \/ CallLocalLock

SpecPure == InitPure /\ [][NextPure]_vars

\* The function fn has returned.
Returned(f) == fn = f /\ Len(output) = 1

----------------------------------------------------------------------------
\* Vocabulary of the properties.  Whether a call asked for serialization is
\* read off its recLock argument, not off localLock.

\* Caller c has a call in progress or returned, made with no lock argument
\* or with a first lock argument of true.
SerializeEnabled(c) ==
  /\ pc[c] # "idle"
  /\ (Len(call[c].recLock) = 0 \/ call[c].recLock[1])

\* Caller c has a call in progress or returned, made with a first lock
\* argument of false.
OptOut(c) ==
  /\ pc[c] # "idle"
  /\ Len(call[c].recLock) > 0
  /\ ~call[c].recLock[1]

\* The record of c's call passes RecordBody.Validate.
ValidCall(c) == pc[c] # "idle" /\ Validate(call[c].record) = {}
InvalidCall(c) == pc[c] # "idle" /\ Validate(call[c].record) # {}

\* Caller c is inside the part of the function body that follows the lock
\* statement and holds the p.Exec call site, and has not returned.
InBody(c) == pc[c] = "Validate"

\* Caller c holds the mutex: it has locked it and not yet unlocked it.
HoldsLock(c) == deferred[c]

----------------------------------------------------------------------------
\* C1 - Mutual exclusion: of the calls made with serialization enabled, at
\* most one at a time is inside the part of its body that holds the Exec
\* call site (between Lock() and the return), so at most one can have an
\* Exec call in flight; the one inside holds the mutex.
C1_MutualExclusion ==
  \A c, d \in Callers :
    (SerializeEnabled(c) /\ InBody(c) /\ SerializeEnabled(d) /\ InBody(d))
      => c = d

\* C1 witness: two serialized calls race; one is inside its body with the
\* mutex while the other waits in Lock().
C1_Witness ==
  \E c, d \in Callers :
    /\ c # d
    /\ SerializeEnabled(c) /\ InBody(c) /\ HoldsLock(c)
    /\ SerializeEnabled(d) /\ pc[d] = "Lock"

\* C2 - Lock always released: a call that has returned does not hold the
\* mutex, and the mutex is locked only while some call that has not yet
\* returned holds it; so once the holder returns the next call can lock.
C2_LockAlwaysReleased ==
  /\ \A c \in Callers : pc[c] \in {"done", "idle"} => ~HoldsLock(c)
  /\ zoneRecordWriteLock => \E c \in Callers : InBody(c) /\ HoldsLock(c)

\* C2 witness: a serialized call has returned and another serialized call
\* has locked the mutex after it.
C2_Witness ==
  \E c, d \in Callers :
    /\ c # d
    /\ SerializeEnabled(c) /\ pc[c] = "done"
    /\ SerializeEnabled(d) /\ InBody(d) /\ HoldsLock(d)

\* C3 as stated - Validation precedes locking: a call made with
\* serialization enabled and an invalid record never holds the mutex.
C3_ValidationPrecedesLocking ==
  \A c \in Callers :
    (SerializeEnabled(c) /\ InvalidCall(c)) => ~HoldsLock(c)

\* C3 amended - Locking precedes validation: a call made with serialization
\* enabled and an invalid record reaches the validation test only with the
\* mutex locked by itself, and no other serialized call is in its body
\* until it returns.
C3_LockingPrecedesValidation ==
  \A c \in Callers :
    (SerializeEnabled(c) /\ InvalidCall(c) /\ InBody(c))
      => /\ HoldsLock(c)
         /\ zoneRecordWriteLock
         /\ \A d \in Callers \ {c} : SerializeEnabled(d) => ~InBody(d)

\* C3 witness: a serialized call with an invalid record holds the mutex at
\* its validation test while a serialized call with a valid record waits.
C3_Witness ==
  \E c, d \in Callers :
    /\ c # d
    /\ SerializeEnabled(c) /\ InvalidCall(c) /\ InBody(c) /\ HoldsLock(c)
    /\ SerializeEnabled(d) /\ ValidCall(d) /\ pc[d] = "Lock"

\* C4 - A call whose record fails validation returns a validation error,
\* not success, and invokes Exec no time.
C4_InvalidRecordRejected ==
  \A c \in Callers :
    (pc[c] = "done" /\ InvalidCall(c))
      => (ret[c] = "ValidationError" /\ execCalls[c] = 0)

\* C5 - Status-code exactness: whatever response the session is set to
\* answer with, a call on a valid record returns success iff the status of
\* that response is the one its operation expects (201 Create, 200 Update,
\* 204 Delete).
C5_StatusCodeExactness ==
  \A c \in Callers : \A reply \in SessionReplies :
    (pc[c] = "done" /\ ValidCall(c) /\ ~reply.err)
      => (ret[c] = "nil" <=> reply.StatusCode = ExpectedStatus(call[c].op))

\* One step of caller c: only its own program counter moves in a step.
StepOf(c) == pc'[c] # pc[c]

\* C6 - Opt-out takes no lock: a call made with a first lock argument of
\* false never waits in Lock() and never holds the mutex, none of its steps
\* changes the state of the mutex, and its next step is enabled whatever
\* the state of the mutex.
C6_OptOutTakesNoLock ==
  [][\A c \in Callers :
       /\ OptOut(c)' => (pc'[c] # "Lock" /\ ~HoldsLock(c)')
       /\ (OptOut(c) /\ InBody(c)) => ENABLED ValidateCheck(c)
       /\ (StepOf(c) /\ (OptOut(c) \/ OptOut(c)'))
            => zoneRecordWriteLock' = zoneRecordWriteLock]_vars

\* C6 witness: an opt-out call has run to its return while another call
\* holds the mutex.
C6_Witness ==
  \E c, d \in Callers :
    /\ c # d
    /\ OptOut(c) /\ pc[c] = "done"
    /\ InBody(d) /\ HoldsLock(d) /\ zoneRecordWriteLock

\* C7 - Opt-out permits overlap: when two calls made with a first lock
\* argument of false, both on valid records, are inside their bodies at
\* the same time, each of them can issue its Exec call, so that both
\* requests are in flight together.
C7_OptOutPermitsOverlap ==
  \A c, d \in Callers :
    (c # d /\ OptOut(c) /\ ValidCall(c) /\ InBody(c)
           /\ OptOut(d) /\ ValidCall(d) /\ InBody(d))
      => ENABLED (Next /\ execCalls'[c] = execCalls[c] + 1)

\* C8 - Transport failure: when the session is set to answer Exec with an
\* error, a call on a valid record returns a transport error, does not hold
\* the mutex once returned, and has invoked Exec once, not twice.
C8_TransportFailure ==
  \A c \in Callers : \A reply \in SessionReplies :
    (pc[c] = "done" /\ ValidCall(c) /\ reply.err)
      => /\ ret[c] = "TransportError"
         /\ ~HoldsLock(c)
         /\ execCalls[c] = 1

\* C9 - Single remote call: a call on a valid record has invoked Exec
\* exactly once when it returns.
C9_SingleRemoteCall ==
  \A c \in Callers :
    (pc[c] = "done" /\ ValidCall(c)) => execCalls[c] = 1

\* C10 - Cancellation does not leak the lock: a serialized call whose
\* context was cancelled while it held the mutex does not hold it once it
\* has returned, and the mutex is then locked only if another call that
\* has not returned holds it.
C10_CancellationReleasesLock ==
  \A c \in Callers :
    (SerializeEnabled(c) /\ ctxDone[c] /\ pc[c] = "done")
      => /\ ~HoldsLock(c)
         /\ zoneRecordWriteLock =>
              \E d \in Callers \ {c} : InBody(d) /\ HoldsLock(d)

\* C10 witness: a serialized call was cancelled while it held the mutex and
\* has returned, and the mutex is free.
C10_Witness ==
  \E c \in Callers :
    /\ SerializeEnabled(c) /\ ctxDone[c] /\ pc[c] = "done"
    /\ ~zoneRecordWriteLock

\* C11 - Reads take no lock: no step of a read changes the mutex or the
\* registered Unlocks, a read never waits (its entry and the return of its
\* Exec call are enabled whatever the state of the mutex), so its request
\* can be in flight while a serialized write holds the lock and while
\* other reads are in flight.
C11_ReadsTakeNoLock ==
  [][\A r \in Readers :
       /\ readPc'[r] # readPc[r]
            => (zoneRecordWriteLock' = zoneRecordWriteLock /\ deferred' = deferred)
       /\ readPc[r] = "idle" => ENABLED GetRuleFormats(r)
       /\ readPc[r] = "Exec" =>
            \A reply \in SessionReplies : ENABLED ExecReturns(r, reply)]_vars

\* C11 witness: two reads have their requests in flight while a serialized
\* write holds the mutex and another serialized write waits for it.
C11_Witness ==
  \E r1, r2 \in Readers : \E c, d \in Callers :
    /\ r1 # r2 /\ readPc[r1] = "Exec" /\ readPc[r2] = "Exec"
    /\ c # d
    /\ SerializeEnabled(c) /\ InBody(c) /\ HoldsLock(c) /\ zoneRecordWriteLock
    /\ SerializeEnabled(d) /\ pc[d] = "Lock"

\* C12 as stated - Validate returns no error iff the record has a
\* non-empty name, a non-empty type, a TTL greater than zero and at least
\* one target value.
C12_ValidateIffPositiveTTL ==
  Returned("Validate") =>
    (output[1] = {} <=> /\ input.Name # ""
                        /\ input.RecordType # ""
                        /\ input.TTL > 0
                        /\ Len(input.Target) >= 1)

\* C12 amended - Validate returns no error iff the record has a non-empty
\* name, a non-empty type, a TTL other than zero and at least one target
\* value; the error names exactly the fields that fail.
C12_ValidateIffNonZeroTTL ==
  Returned("Validate") =>
    /\ output[1] = {} <=> /\ input.Name # ""
                           /\ input.RecordType # ""
                           /\ input.TTL # 0
                           /\ Len(input.Target) >= 1
    /\ "Name" \in output[1] <=> input.Name = ""
    /\ "RecordType" \in output[1] <=> input.RecordType = ""
    /\ "TTL" \in output[1] <=> input.TTL = 0
    /\ "Target" \in output[1] <=> Len(input.Target) = 0

\* C12 witness: Validate has returned no error for a record whose TTL is
\* negative.
C12_Witness ==
  Returned("Validate") /\ input.TTL < 0 /\ output[1] = {}

\* C13 - Global lock granularity: two calls made with serialization
\* enabled are never inside their bodies together, also when they name
\* different zones or are made on different clients.
C13_OneLockForAllZones ==
  \A c, d \in Callers :
    (/\ c # d
     /\ SerializeEnabled(c) /\ SerializeEnabled(d)
     /\ (call[c].zone # call[d].zone \/ call[c].client # call[d].client))
      => ~(InBody(c) /\ InBody(d))

\* C13 witness: a serialized call for one zone on one client holds the
\* mutex while a serialized call for the other zone on the other client
\* waits in Lock().
C13_Witness ==
  \E c, d \in Callers :
    /\ c # d
    /\ SerializeEnabled(c) /\ InBody(c) /\ HoldsLock(c)
    /\ SerializeEnabled(d) /\ pc[d] = "Lock"
    /\ call[c].zone # call[d].zone
    /\ call[c].client # call[d].client

\* The request caller c has handed to p.Exec in its current call.
RequestOf(c) ==
  IF execCalls[c] > 0
    THEN BuildRequest(call[c].op, call[c].zone, call[c].record)
    ELSE NoRequest

\* C17 - Request building: the request of a call on a valid record has
\* the method POST for Create, PUT for Update and DELETE for Delete, the
\* path /config-dns/v2/zones/<zone>/names/<name>/types/<type>, and as
\* body the serialized record for Create and Update, nothing for Delete.
C17_RequestBuilding ==
  \A c \in Callers :
    (pc[c] = "done" /\ ValidCall(c)) =>
      LET rec == call[c].record
          op == call[c].op
      IN /\ RequestOf(c) # NoRequest
         /\ RequestOf(c).method =
              (IF op = "Create" THEN "POST"
               ELSE IF op = "Update" THEN "PUT" ELSE "DELETE")
         /\ RequestOf(c).path =
              "/config-dns/v2/zones/" \o call[c].zone \o "/names/"
                \o rec.Name \o "/types/" \o rec.RecordType
         /\ RequestOf(c).body =
              (IF op = "Delete" THEN {} ELSE convertStructToReqBody(rec))

\* C14 - Liveness of the gate: every call that has been issued eventually
\* returns, whether it waits in Lock() or runs its body; and whenever a
\* call is in progress, some call in progress can take its next step (no
\* deadlock).
C14_EveryCallReturns ==
  /\ \A c \in Callers : (pc[c] \in {"Lock", "Validate"}) ~> (pc[c] = "done")
  /\ []((\E c \in Callers : pc[c] \in {"Lock", "Validate"})
          => \E c \in Callers : ENABLED Lock(c) \/ ENABLED ValidateCheck(c))

\* C14 witness: a serialized call has returned and the serialized call
\* issued after it waits in Lock() with the mutex free.
C14_Witness ==
  \E c, d \in Callers :
    /\ c # d
    /\ SerializeEnabled(c) /\ pc[c] = "done"
    /\ SerializeEnabled(d) /\ pc[d] = "Lock"
    /\ ~zoneRecordWriteLock

\* C15 - Lock/unlock pairing: a call locks the mutex only from Lock(),
\* only when the mutex is free and it does not hold it, and enters Lock()
\* once, at its entry; it unlocks only when it returns, only if it holds
\* the mutex, and the mutex is then locked; a call that does not hold the
\* mutex changes it in no step, and a call that returns holds nothing.
C15_LockUnlockPairing ==
  [][\A c \in Callers :
       /\ (~deferred[c] /\ deferred'[c])
            => /\ pc[c] = "Lock" /\ pc'[c] = "Validate"
               /\ ~zoneRecordWriteLock /\ zoneRecordWriteLock'
       /\ (deferred[c] /\ ~deferred'[c])
            => /\ pc[c] = "Validate" /\ pc'[c] = "done"
               /\ zoneRecordWriteLock /\ ~zoneRecordWriteLock'
       /\ (pc'[c] = "Lock" /\ pc[c] # "Lock") => pc[c] = "idle"
       /\ (StepOf(c) /\ zoneRecordWriteLock' # zoneRecordWriteLock)
            => deferred'[c] # deferred[c]
       /\ pc'[c] = "done" => ~deferred'[c]
       /\ deferred[c] => (zoneRecordWriteLock /\ SerializeEnabled(c))]_vars

\* C15 witness: a serialized call and an opt-out call have both returned
\* and the mutex is free.
C15_Witness ==
  \E c, d \in Callers :
    /\ SerializeEnabled(c) /\ pc[c] = "done"
    /\ OptOut(d) /\ pc[d] = "done"
    /\ ~zoneRecordWriteLock

\* C16 - Lock-argument evaluation: localLock returns true for no
\* argument, and otherwise the first argument whatever follows it.
C16_LocalLockFirstArgument ==
  Returned("localLock") =>
    /\ Len(input) = 0 => output[1] = TRUE
    /\ Len(input) > 0 => output[1] = Head(input)

\* C16 witness: localLock has returned false for a false first argument
\* followed by true.
C16_Witness ==
  /\ Returned("localLock")
  /\ Len(input) > 1 /\ ~input[1] /\ input[2]
  /\ output[1] = FALSE

\* C18 - RecordToMap returns the map of the record's content for a record
\* that passes validation, and nil only for a record that fails it.
C18_RecordToMapOfValidRecord ==
  Returned("RecordToMap") =>
    /\ Validate(input) = {} => output[1] = MapOf(input)
    /\ output[1] = NilMap => Validate(input) # {}

TypeOK ==
  /\ zoneRecordWriteLock \in BOOLEAN
  /\ pc \in [Callers -> {"idle", "Lock", "Validate", "done"}]
  /\ deferred \in [Callers -> BOOLEAN]
  /\ ret \in [Callers -> {"none", "nil"}]
  /\ ctxDone \in [Callers -> BOOLEAN]
  /\ execCalls \in [Callers -> Nat]
  /\ readPc \in [Readers -> {"idle", "Exec", "done"}]
  /\ readRet \in [Readers -> {"none", "nil", "RequestFailed", "APIError"}]
====
